---- MODULE Spec2Model ----
(***************************************************************************)
(* Model of the OIDC agent's HTTP handlers (pkg/oidcagent/handlers.go):    *)
(* LoginStart, LoginEnd, UserInfo, Claims, Refresh, Logout, CheckAuth,     *)
(* DeviceStart and the two reverse proxies, acting on one browser's        *)
(* cookie jar and the session the browser's session cookie selects.       *)
(* Every handler is one action; the identity provider, the backend, the    *)
(* random source and the session store's Save are the environment, and     *)
(* their answers are inputs of the action.                                 *)
(***************************************************************************)
EXTENDS Integers, FiniteSets, Sequences, TLC

\* ------------------------------------------------------------------ bounds
\* The clock runs from 0 to MaxTicks * TickSeconds (seconds).
MaxTicks == 4
TickSeconds == 5
\* With two sessions the clock runs from 0 to MaxTicksTwo * 10 (seconds).
MaxTicksTwo == 1

\* --------------------------------------------------------------- constants
TokenKey == "token"
IDTokenKey == "id_token"
SessionIDKey == "sessionID"

StatusOK == 200
StatusNoContent == 204
StatusBadRequest == 400
StatusUnauthorized == 401
StatusInternalServerError == 500

\* oauth2.Token.Valid() treats a token as expired expiryDelta seconds early.
expiryDelta == 10

\* ------------------------------------------------------------ value spaces
\* Outputs of randString(16) for the state and the nonce, of generateNewSID.
StateVals == {"s1", "s2"}
NonceVals == {"n1", "n2"}
SIDVals == {"sid1", "sid2"}
\* Access and refresh tokens the provider hands out; "" is the absent
\* refresh_token of a token response.
AccessVals == {"a1", "a2"}
RefreshVals == {"", "r1"}
\* expires_in of a token response; 0 is "no expires_in" (zero Expiry).
ExpiresInVals == {0, 15}
\* Raw ID tokens: what matters of the JWT is the nonce claim it carries.
RawIDTokens == [nonce : NonceVals]
NoIDToken == [nonce |-> "<no id_token>"]

\* A cookie the browser does not hold / the request does not carry.
NoCookie == "<absent>"
\* Set-Cookie of a response: not set, or cleared (value "", max-age -1).
NotSet == "<not set>"
Cleared == ""

VARIABLES
    session,    \* the persisted session: a map from keys to values
    jar,        \* the browser's state and nonce cookies
    now,        \* the clock, in seconds
    resp,       \* the request just handled and its response; BaseResp
                \* once the exchange is over
    loggedOut,  \* history: a Logout was answered 200 and no LoginEnd has
                \* completed since
    other,      \* the persisted session of a second browser
    pending     \* the view of the session a Refresh in progress has
                \* loaded; NoPending when none is in progress

\* The session of the first browser with its cookies, clock and responses.
own == <<session, jar, now, resp, loggedOut>>

vars == <<session, jar, now, resp, loggedOut, other, pending>>

NoPending == <<>>

\* ----------------------------------------------------------- session store
\* ginsession.Session: Get, Set, Delete on the request's view of the
\* session; Save persists the view (a failed Save persists nothing).
Has(sess, key) == key \in DOMAIN sess
Get(sess, key) == sess[key]
Set(sess, key, value) == (key :> value) @@ sess
Delete(sess, key) == [k \in (DOMAIN sess) \ {key} |-> sess[k]]
EmptySession == <<>>

\* Save by a request that has Set the given keys on its view of a session
\* which another request has changed in the store since the view was
\* loaded: the store holds the view, or the stored session with the keys
\* written.
Saves(stored, view, keys) ==
    {view,
     [k \in (DOMAIN stored) \cup keys |-> IF k \in keys THEN view[k] ELSE stored[k]]}

\* isLoggedIn looking up the session identifier instead of the token.
isLoggedIn_SessionID(sess) == Has(sess, SessionIDKey)

\* isLoggedIn: a token entry is present, whatever its expiry.
isLoggedIn(sess) == Has(sess, TokenKey)

\* ------------------------------------------------------------------ tokens
\* An oauth2.Token is a record of AccessToken, RefreshToken, Expiry (0: the
\* zero time) and raw, the unexported field in which the id_token of the
\* token response travels.

\* tokenToJSONString: json.Marshal keeps the exported fields only.
tokenToJSONString(t) ==
    [access_token |-> t.AccessToken, refresh_token |-> t.RefreshToken,
     expiry |-> t.Expiry]

\* JsonStringToToken: json.Unmarshal; the raw field is not restored.
JsonStringToToken(s) ==
    [AccessToken |-> s.access_token, RefreshToken |-> s.refresh_token,
     Expiry |-> s.expiry, raw |-> NoIDToken]

\* Valid as it would be without the early-expiry margin.
Valid_NoDelta(t, time) ==
    /\ t.AccessToken # ""
    /\ \/ t.Expiry = 0
       \/ ~ (t.Expiry < time)

\* oauth2.Token.Valid(): an access token, and no expiry or an expiry more
\* than expiryDelta ahead.
Valid(t, time) ==
    /\ t.AccessToken # ""
    /\ \/ t.Expiry = 0
       \/ ~ (t.Expiry - expiryDelta < time)

\* fmt.Sprintf("Bearer %s", token.AccessToken)
Bearer(accessToken) == "Bearer " \o accessToken

\* --------------------------------------------------------------- responses
NoURL == [ok |-> TRUE, code |-> "", state |-> "", error |-> ""]
NoCookies == [state |-> NoCookie, nonce |-> NoCookie]
SetNothing == [state |-> NotSet, nonce |-> NotSet, sessionID |-> NotSet]

\* A response that sets no header, no cookie and has an empty body, for a
\* request that reached neither the provider nor the backend.  Besides the
\* request (op, url, cookies) and the response, the record notes what the
\* environment answered: calls (the provider calls made), forwarded and
\* bearer (the request sent to the backend), exchanged (the provider's
\* answer to the code exchange: "error", "no id_token" or "id_token"),
\* idTokenNonce (the nonce claim of the ID token the verifier accepted) and
\* saveFailed (session.Save returned an error).
BaseResp ==
    [op |-> "none", status |-> 0, url |-> NoURL, cookies |-> NoCookies,
     handled |-> FALSE, loggedIn |-> FALSE, authorization |-> "",
     setCookie |-> SetNothing, authURL |-> [state |-> "", nonce |-> ""],
     body |-> "", calls |-> {}, forwarded |-> FALSE, bearer |-> "",
     exchanged |-> "", idTokenNonce |-> "", saveFailed |-> FALSE]

Reply(fields) == fields @@ BaseResp

\* A handler's outcome: the response and the session as persisted.
Outcome(fields, sess) == [resp |-> Reply(fields), session |-> sess]

\* ------------------------------------------------------------- environment
RandErr == "<rand error>"
ExchangeErr == [AccessToken |-> "", RefreshToken |-> "", Expiry |-> 0, raw |-> NoIDToken]

\* The token a token response with the given fields yields at the given time.
TokenAt(access, refresh, expiresIn, raw, time) ==
    [AccessToken |-> access, RefreshToken |-> refresh,
     Expiry |-> IF expiresIn = 0 THEN 0 ELSE time + expiresIn, raw |-> raw]

\* ---------------------------------------------------------------- handlers
\* AuthCodeURL with the two arguments passed in the wrong order.
AuthCodeURL_Swapped(state, nonce) == [state |-> nonce, nonce |-> state]

\* oauth2.Config.AuthCodeURL(state, oidc.Nonce(nonce)): the authorization
\* URL with the state and nonce query parameters.
AuthCodeURL(state, nonce) == [state |-> state, nonce |-> nonce]

\* LoginStart: rndState and rndNonce are the results of the two randString
\* calls.
LoginStart(sess, rndState, rndNonce) ==
    IF rndState = RandErr
    THEN Outcome([op |-> "LoginStart", status |-> StatusInternalServerError], sess)
    ELSE IF rndNonce = RandErr
    THEN Outcome([op |-> "LoginStart", status |-> StatusInternalServerError], sess)
    ELSE Outcome([op |-> "LoginStart", status |-> StatusOK,
                  setCookie |-> [state |-> rndState, nonce |-> rndNonce,
                                 sessionID |-> NotSet],
                  authURL |-> AuthCodeURL(rndState, rndNonce)], sess)

\* The status if every provider error were a bad request.
LoginFailedStatus_Always400(queryErr) == StatusBadRequest

\* LoginEnd, lines 126-133: the status of a callback that carries an error.
LoginFailedStatus(queryErr) ==
    IF queryErr = "login_required" THEN StatusUnauthorized ELSE StatusBadRequest

\* The state comparison left out.
StateMismatch_Never(state, originalState) == FALSE

\* LoginEnd, line 153: the callback state against the state cookie.
StateMismatch(state, originalState) == state # originalState

\* The nonce comparison left out.
NonceMismatch_Never(idTokenNonce, nonce) == FALSE

\* The nonce comparison turned around.
NonceMismatch_Inverted(idTokenNonce, nonce) == idTokenNonce = nonce

\* LoginEnd, line 198: the ID token's nonce claim against the nonce cookie.
NonceMismatch(idTokenNonce, nonce) == idTokenNonce # nonce

\* The state cookie read but not cleared.
ClearState_Forgotten == SetNothing

\* LoginEnd, lines 152 and 169: the Set-Cookie headers of the response once
\* the state cookie, and then the nonce cookie, has been read.
ClearState == [state |-> Cleared, nonce |-> NotSet, sessionID |-> NotSet]
ClearBoth == [state |-> Cleared, nonce |-> Cleared, sessionID |-> NotSet]

\* The session with the token set and the raw ID token forgotten.
LoginSession_NoIDToken(sess, oauth2Token, rawIDToken) ==
    Set(sess, TokenKey, tokenToJSONString(oauth2Token))

\* LoginEnd, lines 204-212: the session with the serialized token and the
\* raw ID token set.
LoginSession(sess, oauth2Token, rawIDToken) ==
    Set(Set(sess, TokenKey, tokenToJSONString(oauth2Token)), IDTokenKey, rawIDToken)

\* LoginEnd.  url is the parsed request_url of the body (url.ok = FALSE: the
\* body or the URL does not parse), cookies the cookies of the request;
\* exchange is the provider's answer to the code exchange, verifyOK that of
\* the verifier, saveOK that of the session store.
LoginEnd(sess, url, cookies, exchange, verifyOK, saveOK) ==
    LET req == [op |-> "LoginEnd", url |-> url, cookies |-> cookies]
        code == url.code
        state == url.state
        queryErr == url.error
        failed == state # "" /\ queryErr # ""
        handleAuth == state # "" /\ code # ""
        originalState == cookies.state
        nonce == cookies.nonce
        oauth2Token == exchange
        rawIDToken == oauth2Token.raw
    IN
    IF ~ url.ok
    THEN Outcome([status |-> StatusBadRequest] @@ req, sess)
    ELSE IF failed
    THEN Outcome([status |-> LoginFailedStatus(queryErr)] @@ req, sess)
    ELSE IF ~ handleAuth
    THEN Outcome([status |-> StatusOK, handled |-> handleAuth,
                  loggedIn |-> isLoggedIn(sess)] @@ req, sess)
    ELSE IF originalState = NoCookie
    THEN Outcome([status |-> StatusInternalServerError] @@ req, sess)
    ELSE IF StateMismatch(state, originalState)
    THEN Outcome([status |-> StatusBadRequest, setCookie |-> ClearState] @@ req, sess)
    ELSE IF nonce = NoCookie
    THEN Outcome([status |-> StatusInternalServerError,
                  setCookie |-> ClearState] @@ req, sess)
    ELSE IF exchange = ExchangeErr
    THEN Outcome([status |-> StatusInternalServerError, setCookie |-> ClearBoth,
                  calls |-> {"Exchange"}, exchanged |-> "error"] @@ req, sess)
    ELSE IF rawIDToken = NoIDToken
    THEN Outcome([status |-> StatusInternalServerError, setCookie |-> ClearBoth,
                  calls |-> {"Exchange"}, exchanged |-> "no id_token"] @@ req, sess)
    ELSE IF ~ verifyOK
    THEN Outcome([status |-> StatusInternalServerError, setCookie |-> ClearBoth,
                  calls |-> {"Exchange", "Verify"},
                  exchanged |-> "id_token"] @@ req, sess)
    ELSE IF NonceMismatch(rawIDToken.nonce, nonce)
    THEN Outcome([status |-> StatusBadRequest, setCookie |-> ClearBoth,
                  calls |-> {"Exchange", "Verify"}, exchanged |-> "id_token",
                  idTokenNonce |-> rawIDToken.nonce] @@ req, sess)
    ELSE IF ~ saveOK
    THEN Outcome([status |-> StatusInternalServerError, setCookie |-> ClearBoth,
                  calls |-> {"Exchange", "Verify"}, exchanged |-> "id_token",
                  idTokenNonce |-> rawIDToken.nonce, saveFailed |-> TRUE] @@ req,
                 sess)
    ELSE Outcome([status |-> StatusOK, setCookie |-> ClearBoth,
                  calls |-> {"Exchange", "Verify"}, exchanged |-> "id_token",
                  idTokenNonce |-> rawIDToken.nonce,
                  authorization |-> Bearer(oauth2Token.AccessToken),
                  handled |-> handleAuth, loggedIn |-> TRUE] @@ req,
                 LoginSession(sess, oauth2Token, rawIDToken))

\* oauth2.Config.TokenSource(ctx, token).Token(): the token itself while it
\* is valid; else a refresh at the provider, which fails without a refresh
\* token or when the provider refuses (refreshed = ExchangeErr).  A token
\* response without refresh_token keeps the old refresh token.
\* A token source that refreshes on every call.
NeedsRefresh_Always(token, time) == TRUE

NeedsRefresh(token, time) == ~ Valid(token, time)

SourceToken(token, refreshed, time) ==
    IF ~ NeedsRefresh(token, time) THEN token
    ELSE IF token.RefreshToken = "" THEN ExchangeErr
    ELSE IF refreshed = ExchangeErr THEN ExchangeErr
    ELSE [refreshed EXCEPT !.RefreshToken =
             IF refreshed.RefreshToken = "" THEN token.RefreshToken
             ELSE refreshed.RefreshToken]

SourceCalls(token, time) ==
    IF NeedsRefresh(token, time) /\ token.RefreshToken # "" THEN {"Token"} ELSE {}

\* UserInfo storing the token its token source has refreshed.
UserInfo_StoresRefreshed(sess, refreshed, userInfoOK, claimsOK, time) ==
    LET req == [op |-> "UserInfo"] IN
    IF ~ Has(sess, TokenKey)
    THEN Outcome([status |-> StatusUnauthorized] @@ req, sess)
    ELSE LET token == JsonStringToToken(Get(sess, TokenKey))
             src == SourceToken(token, refreshed, time)
             called == SourceCalls(token, time)
         IN
         IF src = ExchangeErr
         THEN Outcome([status |-> StatusInternalServerError,
                       calls |-> called] @@ req, sess)
         ELSE IF ~ userInfoOK
         THEN Outcome([status |-> StatusInternalServerError,
                       calls |-> called \cup {"UserInfo"}] @@ req, sess)
         ELSE IF ~ claimsOK
         THEN Outcome([status |-> StatusInternalServerError,
                       calls |-> called \cup {"UserInfo"}] @@ req, sess)
         ELSE Outcome([status |-> StatusOK, body |-> "userinfo",
                       calls |-> called \cup {"UserInfo"}] @@ req,
                      Set(sess, TokenKey, tokenToJSONString(src)))

\* UserInfo.  userInfoOK: the provider's user-info endpoint answered;
\* claimsOK: its answer decodes into the claims struct.
UserInfo(sess, refreshed, userInfoOK, claimsOK, time) ==
    LET req == [op |-> "UserInfo"] IN
    IF ~ Has(sess, TokenKey)
    THEN Outcome([status |-> StatusUnauthorized] @@ req, sess)
    ELSE LET token == JsonStringToToken(Get(sess, TokenKey))
             src == SourceToken(token, refreshed, time)
             called == SourceCalls(token, time)
         IN
         IF src = ExchangeErr
         THEN Outcome([status |-> StatusInternalServerError,
                       calls |-> called] @@ req, sess)
         ELSE IF ~ userInfoOK
         THEN Outcome([status |-> StatusInternalServerError,
                       calls |-> called \cup {"UserInfo"}] @@ req, sess)
         ELSE IF ~ claimsOK
         THEN Outcome([status |-> StatusInternalServerError,
                       calls |-> called \cup {"UserInfo"}] @@ req, sess)
         ELSE Outcome([status |-> StatusOK, body |-> "userinfo",
                       calls |-> called \cup {"UserInfo"}] @@ req, sess)

\* Claims, lines 321-322: idToken.Claims(claims) decodes into the nil map
\* it is handed by value; json.Unmarshal refuses a non-pointer target.
ClaimsDecodeOK == FALSE

\* Claims.
Claims(sess, verifyOK) ==
    LET req == [op |-> "Claims"] IN
    IF ~ Has(sess, IDTokenKey)
    THEN Outcome([status |-> StatusUnauthorized] @@ req, sess)
    ELSE IF ~ verifyOK
    THEN Outcome([status |-> StatusInternalServerError,
                  calls |-> {"Verify"}] @@ req, sess)
    ELSE IF ~ ClaimsDecodeOK
    THEN Outcome([status |-> StatusInternalServerError, calls |-> {"Verify"},
                  idTokenNonce |-> Get(sess, IDTokenKey).nonce] @@ req, sess)
    ELSE Outcome([status |-> StatusOK, body |-> "claims", calls |-> {"Verify"},
                  idTokenNonce |-> Get(sess, IDTokenKey).nonce] @@ req, sess)

\* Refresh, lines 387-389: the session with the refreshed token and the new
\* session identifier set.
RefreshSession(sess, newToken, newSID) ==
    Set(Set(sess, TokenKey, tokenToJSONString(newToken)), SessionIDKey, newSID)

\* Refresh with the cookie and the header written before the save.
Refresh_CookieBeforeSave(sess, refreshed, newSID, saveOK, time) ==
    LET req == [op |-> "Refresh"] IN
    IF ~ Has(sess, TokenKey)
    THEN Outcome([status |-> StatusUnauthorized] @@ req, sess)
    ELSE LET token == JsonStringToToken(Get(sess, TokenKey))
             newToken == SourceToken(token, refreshed, time)
             called == SourceCalls(token, time)
             written == [setCookie |-> [state |-> NotSet, nonce |-> NotSet,
                                        sessionID |-> newSID],
                         authorization |-> Bearer(newToken.AccessToken)]
         IN
         IF newToken = ExchangeErr
         THEN Outcome([status |-> StatusInternalServerError,
                       calls |-> called] @@ req, sess)
         ELSE IF newSID = RandErr
         THEN Outcome([status |-> StatusInternalServerError,
                       calls |-> called] @@ req, sess)
         ELSE IF ~ saveOK
         THEN Outcome([status |-> StatusInternalServerError, calls |-> called,
                       saveFailed |-> TRUE] @@ written @@ req, sess)
         ELSE Outcome([status |-> StatusNoContent, calls |-> called]
                          @@ written @@ req,
                      RefreshSession(sess, newToken, newSID))

\* Refresh.  newSID is the result of generateNewSID.
Refresh(sess, refreshed, newSID, saveOK, time) ==
    LET req == [op |-> "Refresh"] IN
    IF ~ Has(sess, TokenKey)
    THEN Outcome([status |-> StatusUnauthorized] @@ req, sess)
    ELSE LET token == JsonStringToToken(Get(sess, TokenKey))
             newToken == SourceToken(token, refreshed, time)
             called == SourceCalls(token, time)
         IN
         IF newToken = ExchangeErr
         THEN Outcome([status |-> StatusInternalServerError,
                       calls |-> called] @@ req, sess)
         ELSE IF newSID = RandErr
         THEN Outcome([status |-> StatusInternalServerError,
                       calls |-> called] @@ req, sess)
         ELSE IF ~ saveOK
         THEN Outcome([status |-> StatusInternalServerError,
                       calls |-> called, saveFailed |-> TRUE] @@ req, sess)
         ELSE Outcome([status |-> StatusNoContent, calls |-> called,
                       setCookie |-> [state |-> NotSet, nonce |-> NotSet,
                                      sessionID |-> newSID],
                       authorization |-> Bearer(newToken.AccessToken)] @@ req,
                      RefreshSession(sess, newToken, newSID))

\* The session with the ID token deleted and the token left in place.
LogoutSession_KeepToken(sess) == Delete(sess, IDTokenKey)

\* Logout, lines 424-425: the session without the ID token and the token.
LogoutSession(sess) == Delete(Delete(sess, IDTokenKey), TokenKey)

\* Logout.  logoutURLOK: o.LogoutURL built the end-session URL.
Logout(sess, saveOK, logoutURLOK) ==
    LET req == [op |-> "Logout"] IN
    IF ~ Has(sess, IDTokenKey)
    THEN Outcome([status |-> StatusUnauthorized] @@ req, sess)
    ELSE IF ~ saveOK
    THEN Outcome([status |-> StatusInternalServerError,
                  saveFailed |-> TRUE] @@ req, sess)
    ELSE IF ~ logoutURLOK
    THEN Outcome([status |-> StatusInternalServerError] @@ req, LogoutSession(sess))
    ELSE Outcome([status |-> StatusOK, body |-> "logout_url"] @@ req,
                 LogoutSession(sess))

\* CodeFlowProxy, lines 445-449: the session check before the proxy is built.
ProxyAuthorized(sess) == Has(sess, TokenKey)

\* The authenticated proxy without its session check.
CodeFlowProxy_NoCheck(sess, backendStatus) ==
    Outcome([op |-> "CodeFlowProxy", status |-> backendStatus, forwarded |-> TRUE,
             bearer |-> IF Has(sess, TokenKey)
                        THEN Bearer(JsonStringToToken(Get(sess, TokenKey)).AccessToken)
                        ELSE ""], sess)

\* The authenticated proxy forwarding without the credential.
CodeFlowProxy_NoBearer(sess, backendStatus) ==
    LET req == [op |-> "CodeFlowProxy"] IN
    IF ~ ProxyAuthorized(sess)
    THEN Outcome([status |-> StatusUnauthorized] @@ req, sess)
    ELSE Outcome([status |-> backendStatus, forwarded |-> TRUE] @@ req, sess)

\* CodeFlowProxy.  The static token source hands the stored token to the
\* transport as it is; backendStatus is the backend's answer.
CodeFlowProxy(sess, backendStatus) ==
    LET req == [op |-> "CodeFlowProxy"] IN
    IF ~ ProxyAuthorized(sess)
    THEN Outcome([status |-> StatusUnauthorized] @@ req, sess)
    ELSE LET token == JsonStringToToken(Get(sess, TokenKey)) IN
         Outcome([status |-> backendStatus, forwarded |-> TRUE,
                  bearer |-> Bearer(token.AccessToken)] @@ req, sess)

\* DeviceStart.
DeviceStart(sess) ==
    Outcome([op |-> "DeviceStart", status |-> StatusOK, body |-> "device"], sess)

\* DeviceFlowProxy.
DeviceFlowProxy(sess, backendStatus) ==
    Outcome([op |-> "DeviceFlowProxy", status |-> backendStatus,
             forwarded |-> TRUE], sess)

\* CheckAuth.
CheckAuth(sess, time) ==
    LET req == [op |-> "CheckAuth"] IN
    IF ~ Has(sess, TokenKey)
    THEN Outcome([status |-> StatusUnauthorized] @@ req, sess)
    ELSE LET token == JsonStringToToken(Get(sess, TokenKey)) IN
         IF ~ Valid(token, time)
         THEN Outcome([status |-> StatusUnauthorized, body |-> "failure"] @@ req, sess)
         ELSE Outcome([status |-> StatusOK, body |-> "success"] @@ req, sess)

\* ------------------------------------------------------------------ inputs
URLs ==
    [ok : {TRUE}, code : {"", "c1"}, state : {""} \cup StateVals,
     error : {"", "login_required", "access_denied"}]
    \cup {[ok |-> FALSE, code |-> "", state |-> "", error |-> ""]}

\* The provider's answers to a code exchange at the given time.
Exchanges(time) ==
    {ExchangeErr} \cup
    {TokenAt(a, r, e, raw, time) :
        a \in AccessVals, r \in RefreshVals, e \in ExpiresInVals,
        raw \in RawIDTokens \cup {NoIDToken}}

\* The provider's answers to a refresh at the given time.
Refreshes(time) ==
    {ExchangeErr} \cup
    {TokenAt(a, r, e, NoIDToken, time) :
        a \in AccessVals, r \in RefreshVals, e \in ExpiresInVals}

\* The backend's answers to a forwarded request.
BackendStatuses == {200, 404}

\* ------------------------------------------------------------- the browser
\* The cookie jar after a response: a cleared cookie is dropped, a set one
\* replaced.
Stored(old, set) ==
    IF set = NotSet THEN old ELSE IF set = Cleared THEN NoCookie ELSE set

ApplyCookies(cookies, setCookie) ==
    [state |-> Stored(cookies.state, setCookie.state),
     nonce |-> Stored(cookies.nonce, setCookie.nonce)]

\* ----------------------------------------------------------------- actions
Init ==
    /\ session = EmptySession
    /\ jar = NoCookies
    /\ now = 0
    /\ resp = BaseResp
    /\ loggedOut = FALSE
    /\ other = EmptySession
    /\ pending = NoPending

\* The browser sends a request when the previous exchange is over.  The
\* request is answered: the store holds the outcome's session and the
\* browser applies the response's cookies.
Answer(out) ==
    /\ resp = BaseResp
    /\ session' = out.session
    /\ resp' = out.resp
    /\ jar' = ApplyCookies(jar, out.resp.setCookie)
    /\ UNCHANGED <<now, other, pending>>

ReqLoginStart ==
    \E rndState \in StateVals \cup {RandErr}, rndNonce \in NonceVals \cup {RandErr} :
        /\ Answer(LoginStart(session, rndState, rndNonce))
        /\ UNCHANGED loggedOut

\* The provider, the verifier and the store answer only the requests that
\* reach them: a request the handler ends earlier draws no answer.
ReqLoginEnd ==
    \E url \in URLs :
    \E exchange \in IF "Exchange" \in LoginEnd(session, url, jar, ExchangeErr,
                                               FALSE, FALSE).resp.calls
                     THEN Exchanges(now) ELSE {ExchangeErr} :
    \E verifyOK \in IF exchange.raw # NoIDToken THEN BOOLEAN ELSE {FALSE} :
    \E saveOK \in IF verifyOK THEN BOOLEAN ELSE {FALSE} :
        LET out == LoginEnd(session, url, jar, exchange, verifyOK, saveOK) IN
        /\ Answer(out)
        /\ loggedOut' = IF out.resp.status = StatusOK /\ out.resp.handled
                        THEN FALSE ELSE loggedOut

ReqUserInfo ==
    \E refreshed \in IF "Token" \in UserInfo(session, ExchangeErr, FALSE, FALSE,
                                              now).resp.calls
                      THEN Refreshes(now) ELSE {ExchangeErr} :
    \E userInfoOK \in BOOLEAN :
    \E claimsOK \in IF userInfoOK THEN BOOLEAN ELSE {FALSE} :
        /\ Answer(UserInfo(session, refreshed, userInfoOK, claimsOK, now))
        /\ UNCHANGED loggedOut

ReqClaims ==
    \E verifyOK \in BOOLEAN :
        /\ Answer(Claims(session, verifyOK))
        /\ UNCHANGED loggedOut

ReqRefresh ==
    \E refreshed \in IF "Token" \in Refresh(session, ExchangeErr, RandErr, FALSE,
                                             now).resp.calls
                      THEN Refreshes(now) ELSE {ExchangeErr} :
    \E newSID \in SIDVals \cup {RandErr} :
    \E saveOK \in IF newSID # RandErr THEN BOOLEAN ELSE {FALSE} :
        /\ Answer(Refresh(session, refreshed, newSID, saveOK, now))
        /\ UNCHANGED loggedOut

ReqLogout ==
    \E saveOK \in BOOLEAN, logoutURLOK \in BOOLEAN :
        LET out == Logout(session, saveOK, logoutURLOK) IN
        /\ Answer(out)
        /\ loggedOut' = IF out.resp.status = StatusOK THEN TRUE ELSE loggedOut

ReqCheckAuth ==
    /\ Answer(CheckAuth(session, now))
    /\ UNCHANGED loggedOut

ReqCodeFlowProxy ==
    \E backendStatus \in BackendStatuses :
        /\ Answer(CodeFlowProxy(session, backendStatus))
        /\ UNCHANGED loggedOut

ReqDeviceStart ==
    /\ Answer(DeviceStart(session))
    /\ UNCHANGED loggedOut

ReqDeviceFlowProxy ==
    \E backendStatus \in BackendStatuses :
        /\ Answer(DeviceFlowProxy(session, backendStatus))
        /\ UNCHANGED loggedOut

\* The exchange is over.
Done ==
    /\ resp # BaseResp
    /\ resp' = BaseResp
    /\ UNCHANGED <<session, jar, now, loggedOut, other, pending>>

\* Time passes.
Tick ==
    /\ resp = BaseResp
    /\ now < MaxTicks * TickSeconds
    /\ now' = now + TickSeconds
    /\ UNCHANGED <<session, jar, resp, loggedOut, other, pending>>

\* The browser loses a cookie (its max-age ran out, or the user removed it).
CookieLost ==
    \E name \in {"state", "nonce"} :
        /\ resp = BaseResp
        /\ jar[name] # NoCookie
        /\ jar' = [jar EXCEPT ![name] = NoCookie]
        /\ UNCHANGED <<session, now, resp, loggedOut, other, pending>>

Next ==
    \/ ReqLoginStart
    \/ ReqLoginEnd
    \/ ReqUserInfo
    \/ ReqClaims
    \/ ReqRefresh
    \/ ReqLogout
    \/ ReqCheckAuth
    \/ ReqCodeFlowProxy
    \/ ReqDeviceStart
    \/ ReqDeviceFlowProxy
    \/ Done
    \/ Tick
    \/ CookieLost

Spec == Init /\ [][Next]_vars

\* ------------------------------------------------------ overlapping requests
\* A Refresh is handled while other requests of the same session are: its
\* handler loads the session, and Sets and Saves after its provider call.

\* Refresh, line 342: the request's view of the session is loaded.
RefreshStart ==
    /\ resp = BaseResp
    /\ pending = NoPending
    /\ pending' = <<session>>
    /\ UNCHANGED <<session, jar, now, resp, loggedOut, other>>

\* Refresh, lines 343-402, on the view loaded.  A Refresh answered 204 has
\* Set the token and the session identifier and saved.
RefreshEnd ==
    /\ resp = BaseResp
    /\ pending # NoPending
    /\ \E refreshed \in IF "Token" \in Refresh(pending[1], ExchangeErr, RandErr, FALSE,
                                                now).resp.calls
                         THEN Refreshes(now) ELSE {ExchangeErr} :
       \E newSID \in SIDVals \cup {RandErr} :
       \E saveOK \in IF newSID # RandErr THEN BOOLEAN ELSE {FALSE} :
           LET out == Refresh(pending[1], refreshed, newSID, saveOK, now) IN
           \E stored \in IF out.resp.status = StatusNoContent
                           THEN Saves(session, out.session, {TokenKey, SessionIDKey})
                           ELSE {session} :
               /\ session' = stored
               /\ resp' = out.resp
               /\ jar' = ApplyCookies(jar, out.resp.setCookie)
               /\ pending' = NoPending
               /\ UNCHANGED <<now, loggedOut, other>>

NextOverlap ==
    \/ ReqLoginStart
    \/ ReqLoginEnd
    \/ ReqLogout
    \/ ReqCheckAuth
    \/ RefreshStart
    \/ RefreshEnd
    \/ Done

SpecOverlap == Init /\ [][NextOverlap]_vars

\* ------------------------------------------------------------ two sessions
\* A second browser, with a session of its own, sends requests between
\* those of the first.  Its callback URLs, its cookies and the token its
\* login yields:
OtherURLs == {NoURL, [ok |-> TRUE, code |-> "c1", state |-> "s1", error |-> ""]}
OtherCookies == {NoCookies, [state |-> "s1", nonce |-> "n1"]}
OtherToken == [AccessToken |-> "a2", RefreshToken |-> "r1", Expiry |-> 0,
               raw |-> [nonce |-> "n1"]]

\* The outcomes of the requests the second browser may send on its session.
OtherOutcomes(sess, time) ==
    {LoginStart(sess, "s1", "n1")}
    \cup {LoginEnd(sess, url, c, OtherToken, TRUE, saveOK) :
              url \in OtherURLs, c \in OtherCookies, saveOK \in BOOLEAN}
    \cup {UserInfo(sess, ExchangeErr, TRUE, TRUE, time), Claims(sess, TRUE),
          CheckAuth(sess, time), CodeFlowProxy(sess, StatusOK), DeviceStart(sess),
          DeviceFlowProxy(sess, StatusOK)}
    \cup {Refresh(sess, ExchangeErr, "sid1", saveOK, time) : saveOK \in BOOLEAN}
    \cup {Logout(sess, saveOK, logoutURLOK) :
              saveOK \in BOOLEAN, logoutURLOK \in BOOLEAN}

\* A store that keeps one session for every browser.
AnswerOther_OneSession(out) ==
    /\ other' = out.session
    /\ session' = out.session
    /\ UNCHANGED <<jar, now, resp, loggedOut, pending>>

\* The second browser's request is answered: the store holds the outcome's
\* session as the session of that browser.
AnswerOther(out) ==
    /\ other' = out.session
    /\ UNCHANGED <<session, jar, now, resp, loggedOut, pending>>

ReqOther ==
    /\ resp = BaseResp
    /\ \E out \in OtherOutcomes(other, now) : AnswerOther(out)

\* Time passes, in steps of the token source's expiry margin.
TickTwo ==
    /\ resp = BaseResp
    /\ now < MaxTicksTwo * expiryDelta
    /\ now' = now + expiryDelta
    /\ UNCHANGED <<session, jar, resp, loggedOut, other, pending>>

NextTwo ==
    \/ ReqLoginStart
    \/ ReqLoginEnd
    \/ ReqUserInfo
    \/ ReqClaims
    \/ ReqRefresh
    \/ ReqLogout
    \/ ReqCheckAuth
    \/ ReqCodeFlowProxy
    \/ ReqDeviceStart
    \/ ReqDeviceFlowProxy
    \/ Done
    \/ TickTwo
    \/ CookieLost
    \/ ReqOther

SpecTwo == Init /\ [][NextTwo]_vars

\* ------------------------------------------------------------------ claims
\* The last step handled a LoginEnd whose callback URL is a completion
\* attempt: a state and a code, and no error.
CompletionAttempt(r) ==
    /\ r.op = "LoginEnd"
    /\ r.url.ok
    /\ r.url.state # ""
    /\ r.url.code # ""
    /\ r.url.error = ""

\* The request carried a state cookie and the callback state differs from it.
StateDiffers(r) ==
    /\ r.op = "LoginEnd"
    /\ r.url.ok
    /\ r.url.state # ""
    /\ r.cookies.state # NoCookie
    /\ r.url.state # r.cookies.state

\* C1, as claimed: every LoginEnd whose callback state differs from the state
\* cookie of the request is answered 400 and leaves the session as it was.
C1_Original ==
    [][StateDiffers(resp') => resp'.status = StatusBadRequest /\ session' = session]_vars

\* C1, amended: every LoginEnd completion attempt (state and code, no error)
\* whose callback state differs from the state cookie of the request is
\* answered 400 and leaves the session as it was.
C1_StateMismatchRejected ==
    [][CompletionAttempt(resp') /\ StateDiffers(resp')
         => resp'.status = StatusBadRequest /\ session' = session]_vars

C1_Witness ==
    /\ CompletionAttempt(resp)
    /\ StateDiffers(resp)
    /\ resp.status = StatusBadRequest

\* The exchange succeeded and the verifier accepted an ID token whose nonce
\* claim differs from the nonce cookie, the callback state matching.
NonceDiffers(r) ==
    /\ r.op = "LoginEnd"
    /\ r.url.state = r.cookies.state
    /\ r.idTokenNonce # ""
    /\ r.idTokenNonce # r.cookies.nonce

\* C2: a LoginEnd with matching state, a successful exchange and a verified
\* ID token whose nonce claim differs from the nonce cookie is answered 400
\* and leaves the session as it was.
C2_NonceMismatchRejected ==
    [][NonceDiffers(resp') => resp'.status = StatusBadRequest /\ session' = session]_vars

C2_Witness ==
    /\ NonceDiffers(resp)
    /\ resp.status = StatusBadRequest
    /\ "Exchange" \in resp.calls

\* C3: the authenticated proxy answers a request on a session without a
\* token 401 and sends nothing to the backend; the device-flow proxy
\* forwards every request, token or no token.
C3_ProxyGate ==
    /\ (resp.op = "CodeFlowProxy" /\ ~ Has(session, TokenKey))
          => (resp.status = StatusUnauthorized /\ ~ resp.forwarded)
    /\ resp.op = "DeviceFlowProxy" => resp.forwarded

C3_Witness ==
    /\ resp.op = "CodeFlowProxy"
    /\ ~ Has(session, TokenKey)
    /\ resp.status = StatusUnauthorized

\* C4: after a Logout answered 200 and until a LoginEnd completes, every
\* UserInfo, Claims, Refresh and CheckAuth is answered 401.
C4_LoggedOutUnauthorized ==
    (loggedOut /\ resp.op \in {"UserInfo", "Claims", "Refresh", "CheckAuth"})
        => resp.status = StatusUnauthorized

C4_Witness ==
    /\ loggedOut
    /\ resp.op = "Refresh"
    /\ resp.status = StatusUnauthorized

\* The completion attempt passed every check: the state cookie matched, the
\* verified ID token's nonce is the nonce cookie, and Save did not fail.
LoginPasses(r) ==
    /\ CompletionAttempt(r)
    /\ r.cookies.state = r.url.state
    /\ r.cookies.nonce # NoCookie
    /\ r.idTokenNonce = r.cookies.nonce
    /\ ~ r.saveFailed

\* C5: a completion attempt with matching state cookie, successful exchange,
\* verified ID token with the nonce cookie's nonce and a successful save is
\* answered 200 {handled, logged_in}, with the access token as bearer
\* header, and the session holds the serialized token and the raw ID token.
C5_LoginCompletes ==
    LoginPasses(resp) =>
        /\ resp.status = StatusOK
        /\ resp.handled
        /\ resp.loggedIn
        /\ Has(session, TokenKey)
        /\ Has(session, IDTokenKey)
        /\ Get(session, TokenKey).access_token \in AccessVals
        /\ resp.authorization = "Bearer " \o Get(session, TokenKey).access_token
        /\ Get(session, IDTokenKey).nonce = resp.cookies.nonce

C5_Witness ==
    /\ LoginPasses(resp)
    /\ resp.status = StatusOK
    /\ resp.authorization = "Bearer a2"

\* C6: the authorization URL of a LoginStart answered 200 carries the state
\* and the nonce of the cookies that response sets.
C6_URLMatchesCookies ==
    (resp.op = "LoginStart" /\ resp.status = StatusOK) =>
        /\ resp.authURL.state = resp.setCookie.state
        /\ resp.authURL.nonce = resp.setCookie.nonce
        /\ resp.setCookie.state \in StateVals
        /\ resp.setCookie.nonce \in NonceVals

C6_Witness ==
    /\ resp.op = "LoginStart"
    /\ resp.status = StatusOK
    /\ resp.authURL.state = "s2"

\* The status the claim gives a callback error.
ErrorStatus(r) ==
    IF r.url.error = "login_required" THEN 401 ELSE 400

\* C7, as claimed: every LoginEnd whose callback URL carries a non-empty
\* error is answered 401 for login_required and 400 for any other error.
C7_Original ==
    (resp.op = "LoginEnd" /\ resp.url.ok /\ resp.url.error # "")
        => resp.status = ErrorStatus(resp)

\* C7, amended: every LoginEnd whose callback URL carries a non-empty state
\* and a non-empty error is answered 401 for login_required and 400 for any
\* other error.
C7_ErrorWithState ==
    (resp.op = "LoginEnd" /\ resp.url.ok /\ resp.url.error # ""
        /\ resp.url.state # "")
        => resp.status = ErrorStatus(resp)

C7_Witness ==
    /\ resp.op = "LoginEnd"
    /\ resp.url.error = "login_required"
    /\ resp.url.state # ""
    /\ resp.status = StatusUnauthorized

\* The expiry of the token the session holds (0: none).
StoredExpiry(sess) == Get(sess, TokenKey).expiry

\* C8, as claimed: CheckAuth on a session with a token is answered 200
\* success while the token's expiry has not passed and 401 failure once it
\* has.
C8_Original ==
    (resp.op = "CheckAuth" /\ Has(session, TokenKey)) =>
        IF StoredExpiry(session) = 0 \/ ~ (StoredExpiry(session) < now)
        THEN resp.status = StatusOK /\ resp.body = "success"
        ELSE resp.status = StatusUnauthorized /\ resp.body = "failure"

\* C8, amended: CheckAuth on a session with a token is answered 200 success
\* while the token has no expiry or the time is at most its expiry minus
\* the 10 seconds margin, and 401 failure from then on; it calls neither
\* the provider nor the backend and leaves the session as it was.
C8_CheckAuthLocal ==
    [][(resp'.op = "CheckAuth" /\ Has(session', TokenKey)) =>
          /\ IF StoredExpiry(session') = 0 \/ now' + 10 <= StoredExpiry(session')
             THEN resp'.status = StatusOK /\ resp'.body = "success"
             ELSE resp'.status = StatusUnauthorized /\ resp'.body = "failure"
          /\ resp'.calls = {}
          /\ ~ resp'.forwarded
          /\ session' = session]_vars

\* CheckAuth reports failure although the token's expiry has not passed.
C8_Witness ==
    /\ resp.op = "CheckAuth"
    /\ Has(session, TokenKey)
    /\ StoredExpiry(session) # 0
    /\ now < StoredExpiry(session)
    /\ resp.status = StatusUnauthorized
    /\ resp.body = "failure"

\* C10, as claimed: after a failed completion attempt the browser, having
\* applied the response's cookies, holds neither the state cookie nor the
\* nonce cookie.
C10_Original ==
    (CompletionAttempt(resp) /\ resp.status # StatusOK) => jar = NoCookies

\* C10, amended: a failed completion attempt that found the state cookie
\* clears it; the nonce cookie is cleared exactly when the state cookie
\* matched and the nonce cookie was found, and otherwise stays as the
\* browser held it.
C10_CookiesCleared ==
    (CompletionAttempt(resp) /\ resp.status # StatusOK) =>
        /\ resp.cookies.state # NoCookie => resp.setCookie.state = Cleared
        /\ resp.cookies.state = NoCookie => resp.setCookie.state = NotSet
        /\ jar.state = NoCookie
        /\ resp.setCookie.nonce = Cleared
              <=> (resp.cookies.state = resp.url.state /\ resp.cookies.nonce # NoCookie)
        /\ resp.setCookie.nonce # Cleared
              => (resp.setCookie.nonce = NotSet /\ jar.nonce = resp.cookies.nonce)

\* A state mismatch leaves the nonce cookie in the browser.
C10_Witness ==
    /\ CompletionAttempt(resp)
    /\ StateDiffers(resp)
    /\ resp.status = StatusBadRequest
    /\ resp.setCookie.state = Cleared
    /\ jar.nonce # NoCookie

\* The gateway itself answered the request with an error status: a 4xx or
\* 5xx that is not the backend's answer to a forwarded request.
GatewayError(r) ==
    /\ r.op # "none"
    /\ ~ r.forwarded
    /\ r.status >= 400

\* C11: a request the gateway answers with an error status leaves the
\* persisted session (token, ID token, session identifier) as it was before
\* the request.
C11_ErrorKeepsSession ==
    [][GatewayError(resp') => session' = session]_vars

\* C12: a Refresh that is not answered 204 sets no sessionID cookie and no
\* Authorization header, and the persisted session is as it was before.
C12_FailedRefreshInvisible ==
    [][(resp'.op = "Refresh" /\ resp'.status # StatusNoContent) =>
          /\ resp'.status \in {StatusUnauthorized, StatusInternalServerError,
                               StatusBadRequest}
          /\ resp'.setCookie = SetNothing
          /\ resp'.authorization = ""
          /\ session' = session]_vars

\* A Refresh failed at the last step, the save, on a session with a token.
C12_Witness ==
    /\ resp.op = "Refresh"
    /\ resp.saveFailed
    /\ resp.status = StatusInternalServerError
    /\ Has(session, TokenKey)
    /\ resp.setCookie.sessionID = NotSet

\* The last step handled a LoginEnd whose callback URL carries neither a
\* state, nor a code, nor an error.
PollRequest(r) ==
    /\ r.op = "LoginEnd"
    /\ r.url.ok
    /\ r.url.state = ""
    /\ r.url.code = ""
    /\ r.url.error = ""

CookieJars == [state : StateVals \cup {NoCookie}, nonce : NonceVals \cup {NoCookie}]

\* C13: a LoginEnd whose callback URL carries none of state, code and error
\* is answered 200 with handled = false and logged_in true exactly when the
\* session holds a token entry, whatever its expiry; it sets and clears no
\* cookie, calls the provider for nothing, would answer the same whatever
\* cookies the request carried, and leaves the session as it was.
C13_PollPath ==
    [][PollRequest(resp') =>
          /\ resp'.status = StatusOK
          /\ ~ resp'.handled
          /\ resp'.loggedIn = Has(session, TokenKey)
          /\ resp'.setCookie = SetNothing
          /\ resp'.authorization = ""
          /\ resp'.calls = {}
          /\ jar' = jar
          /\ session' = session
          /\ \A c \in CookieJars :
                LoginEnd(session, resp'.url, c, ExchangeErr, FALSE, FALSE)
                    = [resp |-> [resp' EXCEPT !.cookies = c], session |-> session]]_vars

\* The poll path reports logged_in for a token whose expiry has passed, the
\* browser still holding its login cookies.
C13_Witness ==
    /\ PollRequest(resp)
    /\ resp.status = StatusOK
    /\ resp.loggedIn
    /\ StoredExpiry(session) # 0
    /\ StoredExpiry(session) < now
    /\ jar.state # NoCookie

\* C15: LoginEnd calls the exchange only when the state cookie was found and
\* equals the callback state and the nonce cookie was found; it calls the
\* verifier only after an exchange that returned an id_token; it writes the
\* session only after the verified ID token's nonce equalled the nonce
\* cookie.  A token entry appears in a session only by a LoginEnd that
\* passed all these checks, and an entry is replaced only by such a LoginEnd
\* or by a Refresh.
C15_StepsOrdered ==
    [][/\ (resp'.op = "LoginEnd" /\ "Exchange" \in resp'.calls) =>
              /\ resp'.cookies.state # NoCookie
              /\ resp'.cookies.state = resp'.url.state
              /\ resp'.cookies.nonce # NoCookie
       /\ (resp'.op = "LoginEnd" /\ "Verify" \in resp'.calls) =>
              /\ "Exchange" \in resp'.calls
              /\ resp'.exchanged = "id_token"
       /\ (resp'.op = "LoginEnd" /\ session' # session) =>
              /\ "Verify" \in resp'.calls
              /\ resp'.idTokenNonce \in NonceVals
              /\ resp'.idTokenNonce = resp'.cookies.nonce
       /\ (Has(session', TokenKey) /\ ~ Has(session, TokenKey)) =>
              LoginPasses(resp')
       /\ (Has(session', TokenKey) /\ Has(session, TokenKey)
              /\ Get(session', TokenKey) # Get(session, TokenKey)) =>
              (LoginPasses(resp') \/ resp'.op = "Refresh")]_vars

\* A LoginEnd went through the exchange and the verification and wrote the
\* session.
C15_Witness ==
    /\ LoginPasses(resp)
    /\ resp.calls = {"Exchange", "Verify"}
    /\ resp.exchanged = "id_token"
    /\ resp.cookies.nonce = "n2"
    /\ Has(session, TokenKey)

\* C16: the authenticated proxy calls the provider for nothing and leaves
\* the session as it was; on a session with a token, expired or not, it
\* forwards the request to the backend with the stored access token as
\* bearer credential.
C16_ProxyReadsOnly ==
    [][resp'.op = "CodeFlowProxy" =>
          /\ resp'.calls = {}
          /\ session' = session
          /\ resp'.setCookie = SetNothing
          /\ Has(session, TokenKey) =>
                /\ resp'.forwarded
                /\ resp'.status \in BackendStatuses
                /\ resp'.bearer = "Bearer " \o Get(session, TokenKey).access_token]_vars

\* The proxy forwarded a request with a token whose expiry has passed.
C16_Witness ==
    /\ resp.op = "CodeFlowProxy"
    /\ resp.forwarded
    /\ StoredExpiry(session) # 0
    /\ StoredExpiry(session) < now
    /\ resp.bearer = "Bearer a1"

\* C17: a step that changes the session is a LoginEnd completion answered
\* 200, a Refresh or a Logout; LoginStart, the LoginEnd poll path, UserInfo,
\* Claims, CheckAuth, DeviceStart and the two proxies leave it as it was.
C17_SessionWriters ==
    [][/\ session' # session =>
              \/ LoginPasses(resp') /\ resp'.status = StatusOK
              \/ resp'.op \in {"Refresh", "Logout"}
       /\ (\/ resp'.op \in {"LoginStart", "UserInfo", "Claims", "CheckAuth",
                            "DeviceStart", "CodeFlowProxy", "DeviceFlowProxy"}
           \/ PollRequest(resp')) => session' = session]_vars

\* UserInfo answered with a token its token source refreshed at the
\* provider; the session still holds the old token.
C17_Witness ==
    /\ resp.op = "UserInfo"
    /\ resp.status = StatusOK
    /\ "Token" \in resp.calls
    /\ StoredExpiry(session) # 0
    /\ StoredExpiry(session) - expiryDelta < now

\* The expiry of the stored token has passed.
Expired(sess, time) == StoredExpiry(sess) # 0 /\ StoredExpiry(sess) < time

\* The stored token is valid for the token source: it has no expiry, or its
\* expiry is at least the 10 seconds margin ahead.
StillValid(sess, time) ==
    StoredExpiry(sess) = 0 \/ time + expiryDelta <= StoredExpiry(sess)

\* What every Refresh answered 204 has done: the sessionID cookie is the
\* stored session identifier and the bearer header the stored access token.
RefreshEchoes(r, sess) ==
    /\ r.setCookie.sessionID \in SIDVals
    /\ r.setCookie.sessionID = Get(sess, SessionIDKey)
    /\ r.authorization = "Bearer " \o Get(sess, TokenKey).access_token

\* What a Refresh answered 204 does on a token it did not have to refresh.
RefreshReuses(r, before, after) ==
    /\ r.calls = {}
    /\ Get(after, TokenKey).access_token = Get(before, TokenKey).access_token
    /\ r.authorization = "Bearer " \o Get(before, TokenKey).access_token

\* C19, as claimed: Refresh calls the provider only when the expiry of the
\* stored token has passed; on a token that is still valid a Refresh
\* answered 204 calls no provider, stores the same access token, echoes it
\* as bearer header and stores the new session identifier; the sessionID
\* cookie of every Refresh answered 204 is the stored session identifier and
\* its bearer header the stored access token.
C19_Original ==
    [][resp'.op = "Refresh" =>
          /\ "Token" \in resp'.calls => Expired(session, now)
          /\ (resp'.status = StatusNoContent /\ ~ Expired(session, now)) =>
                RefreshReuses(resp', session, session')
          /\ resp'.status = StatusNoContent => RefreshEchoes(resp', session')]_vars

\* C19, amended: Refresh calls the provider only when the stored token has
\* an expiry that has passed or is less than 10 seconds ahead; on any other
\* token a Refresh answered 204 calls no provider, stores the same access
\* token, echoes it as bearer header and stores the new session identifier;
\* the sessionID cookie of every Refresh answered 204 is the stored session
\* identifier and its bearer header the stored access token.
C19_RefreshOnlyWhenInvalid ==
    [][resp'.op = "Refresh" =>
          /\ "Token" \in resp'.calls => ~ StillValid(session, now)
          /\ (resp'.status = StatusNoContent /\ StillValid(session, now)) =>
                RefreshReuses(resp', session, session')
          /\ resp'.status = StatusNoContent => RefreshEchoes(resp', session')]_vars

\* A Refresh on a valid token: no provider call, a new session identifier.
C19_Witness ==
    /\ resp.op = "Refresh"
    /\ resp.status = StatusNoContent
    /\ resp.calls = {}
    /\ StillValid(session, now)
    /\ StoredExpiry(session) # 0
    /\ resp.setCookie.sessionID = "sid2"
    /\ Get(session, SessionIDKey) = "sid2"

\* C20: Claims on a session whose ID token the verifier accepts is answered
\* 200 with the claims; on a session without ID token 401; it is answered
\* 500 only when the verification or the decoding of the claims fails.
C20_ClaimsAnswered ==
    resp.op = "Claims" =>
        /\ (Has(session, IDTokenKey) /\ resp.idTokenNonce # "") =>
              (resp.status = StatusOK /\ resp.body = "claims")
        /\ ~ Has(session, IDTokenKey) => resp.status = StatusUnauthorized
        /\ resp.status = StatusInternalServerError => "Verify" \in resp.calls

====
